---- MODULE Spec2Model ----
(***************************************************************************)
(* Position & Risk Lifecycle Engine of noto777/mastertrader.                *)
(*                                                                         *)
(* The model follows the statements of the source as written.  Where the   *)
(* source calls a method that no file of the repository defines            *)
(* (Database.get_order, Database.update_order_status,                      *)
(* Database.record_order_status, Database.record_order_lot,                *)
(* Database.get_open_sell_orders, Database.get_latest_risk_state,          *)
(* OrderManager.place_order_async, ...) the method is modelled by what its *)
(* name, its call site and the design document say it does; these are the  *)
(* definitions marked as modelled from the specification.  A call whose    *)
(* only defect is the async/sync mismatch of its definition is modelled as *)
(* the call it denotes.                                                    *)
(*                                                                         *)
(* Money is counted in cents, fractions in percent; one symbol is traded.  *)
(***************************************************************************)
EXTENDS Integers, Sequences, FiniteSets, TLC

VARIABLES
    ibOrders,     \* brokerage: the orders placed, index = orderId
    dbOrder,      \* store: order id -> status of the order record, "NONE" if absent
    dbStatusLog,  \* store: order id -> rows of the order_status table
    orderLot,     \* store: order id -> lot id (0: no lot recorded)
    position,     \* brokerage: shares held of the symbol
    cash,         \* brokerage: AvailableFunds, in cents
    price,        \* market: current price of the symbol, in cents
    lastOp,       \* the observable outcome of the latest operation
    now,          \* wall clock, in half seconds since midnight
    riskLog,      \* store: the risk_states rows of the symbol, oldest first
    unwindCycles, \* store: number of unwind_cycles rows
    pcCore,       \* core-management task: "idle", or "run" once past the gate
    pcRisk,       \* risk-monitor task: "idle", or "run" once past the gate
    episode,      \* unwind orders issued in the current risk-off episode
    lastPoll,     \* the session boundary the session manager last handled
    priceMilestones, \* store: the price_milestones rows of the symbol, oldest first
    shutdownEvent, \* TradingSystem.shutdown_event is set
    runPc,        \* TradingSystem.run: "wait", then "shutdown", "disconnect", "closed"
    polls         \* polls of the session manager at the boundary it last handled

orderVars == <<ibOrders, dbOrder, dbStatusLog, orderLot>>
acctVars == <<position, cash, price>>
loopVars == <<now, riskLog, unwindCycles, pcCore, pcRisk, episode, lastPoll,
              priceMilestones, shutdownEvent, runPc, polls>>
vars == <<ibOrders, dbOrder, dbStatusLog, orderLot, position, cash, price,
          lastOp, now, riskLog, unwindCycles, pcCore, pcRisk, episode, lastPoll,
          priceMilestones, shutdownEvent, runPc, polls>>

----------------------------------------------------------------------------
(* Bounds of the model *)

MaxOrders == 2          \* orders the brokerage accepts in one behaviour
MaxSubmits == 1         \* orders accepted in a behaviour of the submission paths
MaxLot == 1             \* lots 1..MaxLot
MaxRiskRows == 2        \* rows of risk_states written in one behaviour
MaxPolls == 2           \* polls counted at one session boundary

(* Program constants *)

StopAfterAttempt == 3       \* tenacity.stop_after_attempt(3)
CoreTargetPct == 5          \* CORE_POSITIONS['SOXL'] = 0.05
OrderSizePct == 1           \* ORDER_SIZE_PERCENT = 0.01
RetainPct == 25             \* RETAIN_PERCENT = 0.25
MaxPositionBufferPct == 5   \* MAX_POSITION_BUFFER = 0.05
MinCashReservePct == 20     \* MIN_CASH_RESERVE = 0.20
MaxTotalInvestedPct == 80   \* MAX_TOTAL_INVESTED = 0.80
MaxExposurePercent == 10    \* PortfolioManager.MAX_EXPOSURE_PERCENT
CoreUnwindPct == 5          \* CORE_UNWIND_PERCENT = 0.05
TransitionWindow == 60      \* timedelta(seconds=60) in manage_sessions

\* the order ids of the store: one more than the brokerage ever gives out
OrderIds == 1..((IF MaxOrders > MaxSubmits THEN MaxOrders ELSE MaxSubmits) + 1)
Lots == 1..MaxLot

Actions == {"BUY", "SELL"}
\* ib_insync OrderStatus.DoneStates, as Trade.isDone() reads it
DoneStates == {"Filled", "Cancelled", "ApiCancelled"}
\* an order that will never trade again: at the brokerage, or as recorded
Terminal == {"Filled", "Cancelled", "Inactive", "CANCELLED"}

\* outcomes of one call of ib.placeOrder: it returns a Trade, or raises an
\* error that is transient (connection, timeout) or terminal (a rejection)
Outcomes == {"ok", "transient", "terminal"}

NoOp == [op |-> "none", valid |-> TRUE, outs |-> <<>>, tries |-> <<>>, placed |-> 0,
         recorded |-> 0, result |-> "none", id |-> 0, pre |-> "NONE", sent |-> 0,
         changed |-> FALSE]

----------------------------------------------------------------------------
(* The clock and the sessions *)

Sec(h, m, s) == 3600 * h + 60 * m + s

\* a time of day, in half seconds
At(h, m, s) == 2 * Sec(h, m, s)

\* datetime.now().strftime('%H:%M:%S'): the second, its fraction dropped
Strftime(t) == t \div 2

ORDER_SESSIONS ==
    << [name |-> "PREMARKET", start |-> Sec(4, 0, 0), end |-> Sec(9, 30, 0),
        cancel_at_end |-> TRUE],
       [name |-> "RTH", start |-> Sec(9, 30, 0), end |-> Sec(16, 0, 0),
        cancel_at_end |-> TRUE],
       [name |-> "AFTERHOURS", start |-> Sec(16, 0, 0), end |-> Sec(20, 0, 0),
        cancel_at_end |-> TRUE] >>

MARKET_OPEN == At(9, 30, 0)
MARKET_CLOSE == At(16, 0, 0)
PREMARKET_OPEN == At(4, 0, 0)
AFTERMARKET_CLOSE == At(20, 0, 0)

\* the index in ORDER_SESSIONS of the first session whose window holds t, or 0
RECURSIVE SessionFrom(_, _)
SessionFrom(t, i) ==
    IF i > Len(ORDER_SESSIONS) THEN 0
    ELSE IF ORDER_SESSIONS[i].start <= Strftime(t) /\ Strftime(t) < ORDER_SESSIONS[i].end
         THEN i
         ELSE SessionFrom(t, i + 1)

\* get_current_session() with windows closed at both ends: the first session in
\* ORDER_SESSIONS whose window [start, end] holds t
GetCurrentSessionClosed(t) ==
    LET hit == {i \in 1..Len(ORDER_SESSIONS) :
                   ORDER_SESSIONS[i].start <= Strftime(t) /\ Strftime(t) <= ORDER_SESSIONS[i].end}
    IN IF hit = {} THEN "None"
       ELSE ORDER_SESSIONS[CHOOSE i \in hit : \A j \in hit : i <= j].name

\* OrderManager.get_current_session()
GetCurrentSession(t) ==
    IF SessionFrom(t, 1) = 0 THEN "None" ELSE ORDER_SESSIONS[SessionFrom(t, 1)].name

\* OrderManager.should_cancel_order(order_time): order_time is not read
ShouldCancelOrder(t) ==
    LET i == SessionFrom(t, 1) IN
    IF i = 0 THEN TRUE
    ELSE ORDER_SESSIONS[i].cancel_at_end /\ Strftime(t) >= ORDER_SESSIONS[i].end

\* TradingSystem.check_trading_hours(): compares time objects, fractions kept
CheckTradingHours(t) ==
    \/ (MARKET_OPEN <= t /\ t <= MARKET_CLOSE)
    \/ (PREMARKET_OPEN <= t /\ t < MARKET_OPEN)
    \/ (MARKET_CLOSE < t /\ t <= AFTERMARKET_CLOSE)

\* the instants of the day the clock visits, in order
Instants ==
    << At(9, 29, 59), At(9, 30, 0), At(9, 30, 30), At(15, 59, 59), At(16, 0, 0),
       At(19, 59, 59), At(20, 0, 0), At(20, 0, 0) + 1 >>

----------------------------------------------------------------------------
(* The account and the guardrails *)

\* NetLiquidation
TotalValue == cash + position * price

\* int(n / d) of two positive floats: the float quotient of an exact whole
\* number can fall just below it (below), and int() then drops to the number
\* before
FloatInt(n, d, below) ==
    IF below /\ n > 0 /\ n % d = 0 THEN (n \div d) - 1 ELSE n \div d

\* verify_position_limits: the position-limit check
PositionBufferAllows(quantity, action, below) ==
    LET max_allowed == CoreTargetPct + MaxPositionBufferPct
        max_shares == FloatInt(TotalValue * max_allowed, 100 * price, below)
    IN  ~(action = "BUY" /\ position + quantity > max_shares)

\* verify_position_limits: the cash-reserve check
CashReserveAllows(quantity, action) ==
    LET order_value == quantity * price
    IN  ~(action = "BUY" /\ (cash - order_value) * 100 < MinCashReservePct * TotalValue)

\* OrderManager.verify_position_limits(symbol, quantity, action), given how the
\* float quotient of max_shares rounds
VerifyPositionLimitsAt(quantity, action, below) ==
    /\ PositionBufferAllows(quantity, action, below)
    /\ CashReserveAllows(quantity, action)

\* OrderManager.verify_position_limits(symbol, quantity, action) with the
\* quotient exact
VerifyPositionLimits(quantity, action) == VerifyPositionLimitsAt(quantity, action, FALSE)

\* PortfolioManager.check_exposure_limit(symbol, lot_type)
CheckExposureLimit(lot_type) ==
    LET max_limit == IF lot_type = "CORE" THEN CoreTargetPct ELSE MaxExposurePercent
    IN  position * price * 100 <= TotalValue * max_limit

\* Decimal.to_integral_value() of n/d, rounding half to even
RoundHalfEven(n, d) ==
    LET q == n \div d
        r == n % d
    IN  IF 2 * r < d THEN q
        ELSE IF 2 * r > d THEN q + 1
        ELSE IF q % 2 = 0 THEN q ELSE q + 1

----------------------------------------------------------------------------
(* The store *)

Store == [ib |-> ibOrders, db |-> dbOrder, log |-> dbStatusLog, lots |-> orderLot]

Commit(st) ==
    /\ ibOrders' = st.ib
    /\ dbOrder' = st.db
    /\ dbStatusLog' = st.log
    /\ orderLot' = st.lots

\* Database.get_order(order_id): the order record, None when there is none
GetOrder(st, id) == IF id \in DOMAIN st.db THEN st.db[id] ELSE "NONE"

\* Database.update_order_status(order_id, status)
UpdateOrderStatus(st, id, status) == [st EXCEPT !.db[id] = status]

\* record_order_status keeping the latest snapshot only: the status row of the
\* order is replaced
RecordOrderStatusLatest(st, id, status) ==
    [st EXCEPT !.db[id] = status, !.log[id] = <<status>>]

\* OrderManager.record_order_status(trade): one more row of order_status, and
\* the order record carries the status
RecordOrderStatus(st, id, status) ==
    [st EXCEPT !.db[id] = status, !.log[id] = Append(@, status)]

\* Database.record_order_lot(order_id, lot_id)
RecordOrderLot(st, id, lot) == [st EXCEPT !.lots[id] = lot]

\* Database.get_open_sell_orders(lot_id)
GetOpenSellOrders(st, lot) ==
    {id \in 1..Len(st.ib) : /\ st.lots[id] = lot
                            /\ st.ib[id].action = "SELL"
                            /\ st.db[id] \notin Terminal}

\* Database.get_latest_risk_state(symbol)
GetLatestRiskState ==
    IF riskLog = <<>> THEN "NONE" ELSE riskLog[Len(riskLog)]

\* ib.cancelOrder(order_id): the request reaches the brokerage; it acts on an
\* order that is still working there
IbCancelOrder(st, id) ==
    IF id \in 1..Len(st.ib) /\ st.ib[id].status = "Submitted"
    THEN [st EXCEPT !.ib[id].cancelReq = TRUE]
    ELSE st

----------------------------------------------------------------------------
(* Submission with retry *)

\* tenacity.retry(stop_after_attempt(3), reraise=True) around ib.placeOrder:
\* the attempts made when the n-th call of placeOrder ends as outs[n].  No
\* retry= predicate is given, so every exception leads to another attempt.
RECURSIVE RetryFrom(_, _)
RetryFrom(outs, n) ==
    IF outs[n] = "ok" \/ n >= StopAfterAttempt
    THEN SubSeq(outs, 1, n)
    ELSE RetryFrom(outs, n + 1)

\* a submission that gives up after its first attempt
RetryOnce(outs) == SubSeq(outs, 1, 1)

RetryablePlaceOrder(outs) == RetryFrom(outs, 1)

\* what the calls of ib.placeOrder of one submission would do, one after
\* another; no call follows the one that returns, so what it would do is
\* left as "ok"
OutsSet ==
    {outs \in [1..StopAfterAttempt -> Outcomes] :
        \A i, j \in 1..StopAfterAttempt : (i < j /\ outs[i] = "ok") => outs[j] = "ok"}

\* the Trade exists iff the last attempt made returned
Placed(tries) == tries[Len(tries)] = "ok"

\* the order as the brokerage holds it; lot (the lot it sells), src (the entry
\* point), session (the session at submission) and allowed (what the
\* guardrails say of it at submission) are kept for the properties only
NewOrder(action, quantity, kind, lmt, lot, src) ==
    [action |-> action, quantity |-> quantity, kind |-> kind, lmt |-> lmt,
     lot |-> lot, src |-> src, session |-> GetCurrentSession(now),
     allowed |-> VerifyPositionLimits(quantity, action),
     status |-> "Submitted", seen |-> "Submitted", cancelReq |-> FALSE]

\* _retryable_place_order(contract, order), given the attempts it makes: the
\* order gets the next order id and its initial status is recorded
SubmitTo(st, order, tries) ==
    IF Placed(tries)
    THEN RecordOrderStatus([st EXCEPT !.ib = Append(@, order)],
                           Len(st.ib) + 1, "Submitted")
    ELSE st

SubmitOp(op, outs, tries, st) ==
    [NoOp EXCEPT !.op = op, !.outs = outs, !.tries = tries,
                 !.placed = Len(st.ib) - Len(ibOrders),
                 !.recorded = Cardinality({i \in OrderIds :
                                  dbStatusLog[i] = <<>> /\ st.log[i] # <<>>}),
                 !.id = IF Placed(tries) THEN Len(st.ib) ELSE 0,
                 !.result = IF Placed(tries) THEN "placed" ELSE "fail"]

\* place_limit_order: validation of the input
ValidLimitInput(action, quantity, limit_price) ==
    /\ action \in Actions
    /\ ~(quantity <= 0 \/ limit_price <= 0)

\* place_limit_order(symbol, action, quantity, limit_price) up to its wait for
\* the trade to complete
PlaceLimitOrderIn(st, action, quantity, limit_price, tries, lot, src) ==
    IF ~ValidLimitInput(action, quantity, limit_price)
    THEN st
    ELSE SubmitTo(st, NewOrder(action, quantity, "LMT", limit_price, lot, src), tries)

\* OrderManager.place_order_async(symbol, action, quantity)
PlaceOrderAsyncIn(st, action, quantity, tries, src) ==
    SubmitTo(st, NewOrder(action, quantity, "MKT", 0, 0, src), tries)

\* OrderManager.cancel_order(order_id)
CancelOrderIn(st, id) ==
    IF GetOrder(st, id) = "NONE"
    THEN st
    ELSE UpdateOrderStatus(IbCancelOrder(st, id), id, "CANCELLED")

CancelResult(st, id) == GetOrder(st, id) # "NONE"

----------------------------------------------------------------------------
(* Initial states *)

StartCash(positions, prices, cashes) ==
    /\ ibOrders = <<>>
    /\ dbOrder = [i \in OrderIds |-> "NONE"]
    /\ dbStatusLog = [i \in OrderIds |-> <<>>]
    /\ orderLot = [i \in OrderIds |-> 0]
    /\ position \in positions
    /\ cash \in cashes
    /\ price \in prices
    /\ lastOp = NoOp
    /\ now = Instants[1]
    /\ riskLog = <<>>
    /\ unwindCycles = 0
    /\ pcCore = "idle"
    /\ pcRisk = "idle"
    /\ episode = 0
    /\ lastPoll = "none"
    /\ priceMilestones = <<>>
    /\ shutdownEvent = FALSE
    /\ runPc = "wait"
    /\ polls = 0

Start(positions, prices) == StartCash(positions, prices, {10000})

Init == Start({0, 1}, {1000})

----------------------------------------------------------------------------
(* Order Lifecycle Manager: the entry points *)

\* limit prices are kept in thousandths of a cent
AtMarket == price * 1000

\* a brokerage that takes the order at once, and one that cannot be reached
OkOrFail == {<<"ok", "ok", "ok">>, <<"transient", "transient", "transient">>}

\* place_limit_order(symbol, action, quantity, limit_price)
PlaceLimitOrderOp(room, acts, quantities, lmts, outsOf) ==
    /\ Len(ibOrders) < room
    /\ \E action \in acts, quantity \in quantities, lmt \in lmts, outs \in outsOf :
          LET tries == RetryablePlaceOrder(outs)
              st == PlaceLimitOrderIn(Store, action, quantity, lmt, tries, 0,
                                      "place_limit_order")
          IN  /\ Commit(st)
              /\ lastOp' = IF ValidLimitInput(action, quantity, lmt)
                           THEN SubmitOp("place_limit_order", outs, tries, st)
                           ELSE [NoOp EXCEPT !.op = "place_limit_order",
                                             !.valid = FALSE, !.result = "fail"]
    /\ UNCHANGED <<acctVars, loopVars>>

\* place_profit_target_order(symbol, quantity, entry_price, lot_id)
PlaceProfitTargetOrderOp(room, quantities, entries, outsOf) ==
    /\ Len(ibOrders) < room
    /\ \E quantity \in quantities, entry_price \in entries, lot \in Lots,
          outs \in outsOf :
          LET tries == RetryablePlaceOrder(outs)
              target_price == entry_price * (1000 + 10)
              placed == SubmitTo(Store, NewOrder("SELL", quantity, "LMT", target_price,
                                                 lot, "place_profit_target_order"), tries)
              st == IF Placed(tries) THEN RecordOrderLot(placed, Len(placed.ib), lot)
                    ELSE placed
          IN  /\ Commit(st)
              /\ lastOp' = [SubmitOp("place_profit_target_order", outs, tries, st)
                              EXCEPT !.valid = quantity > 0 /\ target_price > 0]
    /\ UNCHANGED <<acctVars, loopVars>>

\* place_core_unwind_order(symbol, quantity, lot_id)
PlaceCoreUnwindOrderOp(room, quantities, outsOf) ==
    /\ Len(ibOrders) < room
    /\ \E quantity \in quantities, outs \in outsOf :
          LET tries == RetryablePlaceOrder(outs)
              st == SubmitTo(Store, NewOrder("SELL", quantity, "MKT", 0, 0,
                                             "place_core_unwind_order"), tries)
          IN  /\ Commit(st)
              /\ lastOp' = [SubmitOp("place_core_unwind_order", outs, tries, st)
                              EXCEPT !.valid = quantity > 0]
    /\ UNCHANGED <<acctVars, loopVars>>

\* cancel_order(order_id)
CancelOrder ==
    \E id \in OrderIds :
        /\ Commit(CancelOrderIn(Store, id))
        /\ lastOp' = [NoOp EXCEPT !.op = "cancel_order", !.id = id,
                                  !.pre = GetOrder(Store, id),
                                  !.sent = IF CancelResult(Store, id) THEN 1 ELSE 0,
                                  !.changed = CancelOrderIn(Store, id).db # dbOrder,
                                  !.result = IF CancelResult(Store, id) THEN "ok" ELSE "fail"]
        /\ UNCHANGED <<acctVars, loopVars>>

----------------------------------------------------------------------------
(* The brokerage *)

\* the brokerage fills a working order; a cancel request already sent does not
\* stop it
BrokerFill ==
    \E id \in 1..Len(ibOrders) :
        LET o == ibOrders[id] IN
        /\ o.status = "Submitted"
        /\ o.quantity > 0
        /\ o.action = "SELL" => position >= o.quantity
        /\ o.action = "BUY" => cash >= o.quantity * price
        /\ ibOrders' = [ibOrders EXCEPT ![id].status = "Filled"]
        /\ position' = IF o.action = "BUY" THEN position + o.quantity
                       ELSE position - o.quantity
        /\ cash' = IF o.action = "BUY" THEN cash - o.quantity * price
                   ELSE cash + o.quantity * price
        /\ UNCHANGED <<dbOrder, dbStatusLog, orderLot, price, lastOp, loopVars>>

\* the brokerage confirms a cancel request
BrokerCancel ==
    \E id \in 1..Len(ibOrders) :
        /\ ibOrders[id].status = "Submitted"
        /\ ibOrders[id].cancelReq
        /\ ibOrders' = [ibOrders EXCEPT ![id].status = "Cancelled"]
        /\ UNCHANGED <<dbOrder, dbStatusLog, orderLot, acctVars, lastOp, loopVars>>

\* the brokerage rejects a working order
BrokerReject ==
    \E id \in 1..Len(ibOrders) :
        /\ ibOrders[id].status = "Submitted"
        /\ ~ibOrders[id].cancelReq
        /\ ibOrders' = [ibOrders EXCEPT ![id].status = "Inactive"]
        /\ UNCHANGED <<dbOrder, dbStatusLog, orderLot, acctVars, lastOp, loopVars>>

\* trade.statusEvent: the status reaches the client, which runs the callback
\* record_order_status registered by _retryable_place_order
DeliverStatus ==
    \E id \in 1..Len(ibOrders) :
        /\ ibOrders[id].seen # ibOrders[id].status
        /\ Commit(RecordOrderStatus(
                    [Store EXCEPT !.ib[id].seen = ibOrders[id].status],
                    id, ibOrders[id].status))
        /\ UNCHANGED <<acctVars, lastOp, loopVars>>

----------------------------------------------------------------------------
(* Gap adjustment *)

\* Database.get_active_lots(symbol, 'TRADING'): the lots still held
ActiveLot(lot) ==
    /\ position > 0
    /\ ~\E id \in 1..Len(ibOrders) :
            ibOrders[id].lot = lot /\ ibOrders[id].status = "Filled"

\* GapDetector.handle_gap_up(symbol), for one lot, and adjust_sell_order
AdjustSellOrder ==
    /\ Len(ibOrders) < MaxOrders
    /\ \E lot \in Lots, entry_price \in {price - 10, price}, outs \in OkOrFail :
          /\ ActiveLot(lot)
          /\ price * 100 >= entry_price * 101
          /\ LET RECURSIVE CancelAll(_, _)
                 CancelAll(st, ids) ==
                     IF ids = {} THEN st
                     ELSE LET id == CHOOSE x \in ids : TRUE
                          IN  CancelAll(IbCancelOrder(st, id), ids \ {id})
                 cancelled == CancelAll(Store, GetOpenSellOrders(Store, lot))
                 new_limit_price == price * 995
             IN  Commit(PlaceLimitOrderIn(cancelled, "SELL", 1, new_limit_price,
                                          RetryablePlaceOrder(outs), lot,
                                          "adjust_sell_order"))
    /\ UNCHANGED <<acctVars, lastOp, loopVars>>

----------------------------------------------------------------------------
(* Spec: the life of an order, from submission to its terminal status *)

PlaceLimitOrder == PlaceLimitOrderOp(MaxOrders, Actions, {1}, {AtMarket}, OkOrFail)

\* the protective sell of a lot: placed for a lot that has no working sell
PlaceProfitTargetOrder ==
    /\ \A id \in 1..Len(ibOrders) :
          ibOrders[id].lot # 0 => ibOrders[id].status # "Submitted"
    /\ PlaceProfitTargetOrderOp(MaxOrders, {1}, {price}, OkOrFail)

Next ==
    \/ PlaceLimitOrder
    \/ PlaceProfitTargetOrder
    \/ CancelOrder
    \/ AdjustSellOrder
    \/ BrokerFill
    \/ BrokerCancel
    \/ BrokerReject
    \/ DeliverStatus

Spec == Init /\ [][Next]_vars

\* C3: an order is recorded CANCELLED only once the brokerage has confirmed the
\* cancellation; in particular never while the brokerage has filled it.
C3_CancelledOnlyOnConfirm ==
    \A id \in 1..Len(ibOrders) :
        dbOrder[id] = "CANCELLED" => ibOrders[id].status = "Cancelled"

\* C4: cancel_order on an unknown or terminal order fails, sends no cancel
\* request and changes no order record; on a known working order it sends
\* exactly one request.
C4_CancelTerminalIsNoOp ==
    lastOp.op = "cancel_order" =>
        IF lastOp.pre \in Terminal \cup {"NONE"}
        THEN lastOp.result = "fail" /\ lastOp.sent = 0 /\ ~lastOp.changed
        ELSE lastOp.sent = 1

LiveSells(lot) ==
    {id \in 1..Len(ibOrders) : /\ ibOrders[id].lot = lot
                               /\ ibOrders[id].action = "SELL"
                               /\ ibOrders[id].status = "Submitted"}

\* C5: the replacement sell of a gap adjustment is submitted only after the
\* cancellation of the protective sell is confirmed: a lot never has two
\* working sell orders.
C5_OneLiveSellPerLot ==
    \A lot \in Lots : Cardinality(LiveSells(lot)) <= 1

----------------------------------------------------------------------------
(* SpecSubmit: the submission entry points, on every input *)

\* handle_gap_up_exit(symbol, quantity, current_price, lot_id): filled says
\* whether the fill arrives within the ten seconds it waits
HandleGapUpExitOp(room, quantities, outsOf) ==
    /\ Len(ibOrders) < room
    /\ \E quantity \in quantities, lot \in Lots, outs \in outsOf, filled \in BOOLEAN :
          LET tries == RetryablePlaceOrder(outs)
              limit_price == price * 999
              id == Len(ibOrders) + 1
              placed == SubmitTo(Store, NewOrder("SELL", quantity, "LMT", limit_price,
                                                 lot, "handle_gap_up_exit"), tries)
              op == [SubmitOp("handle_gap_up_exit", outs, tries, placed)
                       EXCEPT !.valid = quantity > 0 /\ limit_price > 0]
          IN  IF ~Placed(tries)
              THEN /\ ~filled
                   /\ Commit(placed)
                   /\ lastOp' = op
                   /\ UNCHANGED acctVars
              ELSE IF filled
              THEN /\ quantity > 0
                   /\ position >= quantity
                   /\ Commit(RecordOrderStatus(
                          [placed EXCEPT !.ib[id].status = "Filled",
                                         !.ib[id].seen = "Filled"], id, "Filled"))
                   /\ position' = position - quantity
                   /\ cash' = cash + quantity * price
                   /\ price' = price
                   /\ lastOp' = [op EXCEPT !.result = "ok"]
              ELSE /\ Commit(CancelOrderIn(placed, id))
                   /\ lastOp' = [op EXCEPT !.result = "fail", !.sent = 1]
                   /\ UNCHANGED acctVars
    /\ UNCHANGED loopVars

\* PortfolioManager.handle_sell_signal(symbol, lot_id, sell_price): the lot id
\* is passed where place_limit_order takes the quantity
HandleSellSignalOp(room, lots, prices, outsOf) ==
    /\ Len(ibOrders) < room
    /\ \E lot_id \in lots, sell_price \in prices, outs \in outsOf :
          LET tries == RetryablePlaceOrder(outs)
              st == PlaceLimitOrderIn(Store, "SELL", lot_id, sell_price, tries, lot_id,
                                      "handle_sell_signal")
          IN  /\ Commit(st)
              /\ lastOp' = IF ValidLimitInput("SELL", lot_id, sell_price)
                           THEN SubmitOp("handle_sell_signal", outs, tries, st)
                           ELSE [NoOp EXCEPT !.op = "handle_sell_signal",
                                             !.valid = FALSE, !.result = "fail"]
    /\ UNCHANGED <<acctVars, loopVars>>

SubmitLimitOrder ==
    PlaceLimitOrderOp(MaxSubmits, Actions \cup {"HOLD"}, {0, 1}, {0, AtMarket}, OutsSet)

SubmitProfitTargetOrder ==
    PlaceProfitTargetOrderOp(MaxSubmits, {0, 1}, {0, price}, OutsSet)

SubmitGapUpExit == HandleGapUpExitOp(MaxSubmits, {0, 1}, OutsSet)

SubmitCoreUnwindOrder == PlaceCoreUnwindOrderOp(MaxSubmits, {0, 1}, OutsSet)

SubmitSellSignal == HandleSellSignalOp(MaxSubmits, {0} \cup Lots, {0, AtMarket}, OutsSet)

NextSubmit ==
    \/ SubmitLimitOrder
    \/ SubmitProfitTargetOrder
    \/ SubmitGapUpExit
    \/ SubmitCoreUnwindOrder
    \/ SubmitSellSignal

SpecSubmit == Init /\ [][NextSubmit]_vars

C9_TerminalNotRetried ==
    /\ \A k \in 1..Len(lastOp.tries) :
          lastOp.tries[k] = "terminal" => k = Len(lastOp.tries)
    /\ (lastOp.tries # <<>> /\ lastOp.tries[Len(lastOp.tries)] = "terminal")
          => lastOp.result = "fail"

\* C10: a submission with invalid input makes no placement attempt, writes no
\* order record and returns failure, at every entry point.
C10_InvalidInputFailsAtOnce ==
    (lastOp.op # "none" /\ ~lastOp.valid) =>
        /\ lastOp.tries = <<>>
        /\ lastOp.placed = 0
        /\ lastOp.recorded = 0
        /\ lastOp.result = "fail"

----------------------------------------------------------------------------
(* Core Cycle Accountant *)

\* int(n / d) for d # 0: the quotient truncated towards zero (the quotient of
\* the floats is taken as the exact one)
IntOf(n, d) ==
    LET an == IF n < 0 THEN -n ELSE n
        ad == IF d < 0 THEN -d ELSE d
        q == an \div ad
    IN  IF (n < 0) = (d < 0) THEN q ELSE -q

\* OrderManager.get_position_size(symbol): 0 when the request fails
GetPositionSize(ok) == IF ok THEN position ELSE 0

\* OrderManager.get_current_price(symbol): 0.0 when the request fails
GetCurrentPrice(ok) == IF ok THEN price ELSE 0

CyclesRemainingClamped(total_cycles, cycles_completed) ==
    IF total_cycles > cycles_completed THEN total_cycles - cycles_completed ELSE 0

\* 'cycles_remaining': total_cycles - cycles_completed
CyclesRemaining(total_cycles, cycles_completed) == total_cycles - cycles_completed

\* calculate_core_building_requirements(symbol, account_value), given what the
\* two lookups return: none is TRUE when the computation raises and None is
\* returned
Requirements(account_value, current_position, current_price) ==
    IF account_value * OrderSizePct * RetainPct = 0
    THEN [none |-> TRUE, total_cycles_needed |-> 0, cycles_completed |-> 0,
          cycles_remaining |-> 0]
    ELSE LET total_cycles == IntOf(account_value * CoreTargetPct * 100,
                                   account_value * OrderSizePct * RetainPct)
             cycles_completed == IntOf(current_position * current_price * 10000,
                                       account_value * OrderSizePct * RetainPct)
         IN  [none |-> FALSE, total_cycles_needed |-> total_cycles,
              cycles_completed |-> cycles_completed,
              cycles_remaining |-> CyclesRemaining(total_cycles, cycles_completed)]

\* calculate_core_building_requirements(symbol, account_value)
CalculateCoreBuildingRequirements(account_value) ==
    Requirements(account_value, GetPositionSize(TRUE), GetCurrentPrice(TRUE))

\* PortfolioManager.handle_risk_off_core(symbol): the whole position is sold;
\* the unwind cycle is recorded when the order call returns
HandleRiskOffCoreIn(st, tries) ==
    IF position > 0
    THEN PlaceOrderAsyncIn(st, "SELL", position, tries, "handle_risk_off_core")
    ELSE st

Unwound(tries) == position > 0 /\ Placed(tries)

\* PortfolioManager.build_core_position(symbol)
BuildCorePositionIn(st, tries) ==
    LET order_size == RoundHalfEven(MaxTotalInvestedPct * CoreTargetPct, 100)
        quantity == RoundHalfEven(order_size, price)
    IN  IF cash < order_size + MinCashReservePct THEN st
        ELSE IF quantity <= 0 THEN st
        ELSE PlaceOrderAsyncIn(st, "BUY", quantity, tries, "build_core_position")

ManageCorePositionAlways(st, tries) ==
    IF GetLatestRiskState = "NONE" THEN st
    ELSE IF GetLatestRiskState = "RISK_OFF" THEN HandleRiskOffCoreIn(st, tries)
    ELSE IF GetLatestRiskState = "RISK_ON" THEN BuildCorePositionIn(st, tries)
    ELSE st

\* PortfolioManager.manage_core_position(symbol)
ManageCorePositionIn(st, tries) ==
    LET risk_state == GetLatestRiskState
        requirements == CalculateCoreBuildingRequirements(TotalValue)
    IN  IF risk_state = "NONE" THEN st
        ELSE IF risk_state = "RISK_OFF" THEN HandleRiskOffCoreIn(st, tries)
        ELSE IF risk_state = "RISK_ON" /\ ~requirements.none
                /\ requirements.cycles_remaining > 0
             THEN BuildCorePositionIn(st, tries)
        ELSE st

----------------------------------------------------------------------------
(* SpecGuard: the paths that buy *)

InitGuard == Start({0, 1}, {5, 1000})

GuardPlaceLimitOrder == PlaceLimitOrderOp(MaxOrders, {"BUY"}, {1}, {AtMarket}, OkOrFail)

\* PortfolioManager.handle_buy_signal(symbol, quantity, limit_price)
HandleBuySignal ==
    /\ Len(ibOrders) < MaxOrders
    /\ CheckExposureLimit("TRADING")
    /\ \E outs \in OkOrFail :
          Commit(PlaceLimitOrderIn(Store, "BUY", 1, AtMarket, RetryablePlaceOrder(outs),
                                   0, "handle_buy_signal"))
    /\ UNCHANGED <<acctVars, lastOp, loopVars>>

\* PortfolioManager.build_core_position(symbol)
BuildCorePosition ==
    /\ Len(ibOrders) < MaxOrders
    /\ \E outs \in OkOrFail :
          Commit(BuildCorePositionIn(Store, RetryablePlaceOrder(outs)))
    /\ UNCHANGED <<acctVars, lastOp, loopVars>>

NextGuard ==
    \/ GuardPlaceLimitOrder
    \/ HandleBuySignal
    \/ BuildCorePosition
    \/ BrokerFill
    \/ DeliverStatus

SpecGuard == InitGuard /\ [][NextGuard]_vars

\* C2: every BUY handed to the brokerage was allowed by the position-buffer and
\* cash-reserve guardrails evaluated on it in the operation that placed it.
C2_BuyPassedGuardrails ==
    \A id \in 1..Len(ibOrders) :
        ibOrders[id].action = "BUY" => ibOrders[id].allowed

----------------------------------------------------------------------------
(* SpecLoop: the Trading Control Loop and the Session Manager *)

\* OrderManager.active_orders: set to {} by the constructor; no statement of
\* the repository adds an entry
active_orders == <<>>

\* RESUBMIT_ORDERS_ACROSS_SESSIONS
RESUBMIT_ORDERS_ACROSS_SESSIONS == TRUE

\* OrderManager.handle_session_transition()
RECURSIVE HandleSessionTransitionFrom(_, _, _)
HandleSessionTransitionFrom(st, ids, tries) ==
    IF ids = {} THEN st
    ELSE LET order_id == CHOOSE x \in ids : \A y \in ids : x <= y
             order_info == active_orders[order_id]
             cancelled == CancelOrderIn(st, order_id)
             done == IF ~ShouldCancelOrder(now) THEN st
                     ELSE IF RESUBMIT_ORDERS_ACROSS_SESSIONS
                     THEN PlaceLimitOrderIn(cancelled, order_info.action,
                                            order_info.quantity, order_info.price,
                                            tries, 0, "handle_session_transition")
                     ELSE cancelled
         IN  HandleSessionTransitionFrom(done, ids \ {order_id}, tries)

ResubmitFirstIn(st, tries) ==
    IF Len(st.ib) >= 1 /\ Len(st.ib) < Len(st.db)
    THEN PlaceLimitOrderIn(st, st.ib[1].action, st.ib[1].quantity, AtMarket, tries,
                           0, "handle_session_transition")
    ELSE st

HandleSessionTransitionIn(st, tries) ==
    HandleSessionTransitionFrom(st, DOMAIN active_orders, tries)

\* the clock moves on
Tick ==
    /\ \E i \in 1..(Len(Instants) - 1) : now = Instants[i] /\ now' = Instants[i + 1]
    /\ UNCHANGED <<orderVars, acctVars, lastOp, riskLog, unwindCycles, pcCore,
                   pcRisk, episode, lastPoll,
                   priceMilestones,
                   shutdownEvent, runPc, polls>>

\* Database.record_risk_state: the Risk State Machine writes the state it
\* resolved; a run of RISK_OFF rows is one risk-off episode
RecordRiskState ==
    /\ Len(riskLog) < MaxRiskRows
    /\ \E s \in {"RISK_ON", "RISK_OFF"} :
          /\ riskLog' = Append(riskLog, s)
          /\ episode' = IF s = "RISK_OFF" /\ GetLatestRiskState = "RISK_OFF"
                        THEN episode ELSE 0
    /\ UNCHANGED <<orderVars, acctVars, lastOp, now, unwindCycles, pcCore, pcRisk,
                   lastPoll,
                   priceMilestones,
                   shutdownEvent, runPc, polls>>

\* TradingSystem.run_task("Manage Core Positions", ...): the trading-hours gate
CoreGate ==
    /\ pcCore = "idle"
    /\ CheckTradingHours(now)
    /\ pcCore' = "run"
    /\ UNCHANGED <<orderVars, acctVars, lastOp, now, riskLog, unwindCycles, pcRisk,
                   episode, lastPoll,
                   priceMilestones,
                   shutdownEvent, runPc, polls>>

\* ... and the task's body, manage_core_position(symbol), after its brokerage
\* round trips
CoreRun ==
    /\ pcCore = "run"
    /\ Len(ibOrders) < MaxOrders
    /\ \E outs \in OkOrFail :
          LET tries == RetryablePlaceOrder(outs)
              unwinds == GetLatestRiskState = "RISK_OFF" /\ Unwound(tries)
          IN  /\ Commit(ManageCorePositionIn(Store, tries))
              /\ unwindCycles' = IF unwinds THEN unwindCycles + 1 ELSE unwindCycles
              /\ episode' = IF unwinds THEN episode + 1 ELSE episode
    /\ pcCore' = "idle"
    /\ UNCHANGED <<acctVars, lastOp, now, riskLog, pcRisk, lastPoll,
                   priceMilestones,
                   shutdownEvent, runPc, polls>>

\* TradingSystem.monitor_risk_state(): the trading-hours gate
RiskGate ==
    /\ pcRisk = "idle"
    /\ CheckTradingHours(now)
    /\ pcRisk' = "run"
    /\ UNCHANGED <<orderVars, acctVars, lastOp, now, riskLog, unwindCycles, pcCore,
                   episode, lastPoll,
                   priceMilestones,
                   shutdownEvent, runPc, polls>>

\* ... and its body for the symbol
RiskRun ==
    /\ pcRisk = "run"
    /\ Len(ibOrders) < MaxOrders
    /\ \E outs \in OkOrFail :
          LET tries == RetryablePlaceOrder(outs)
              unwinds == GetLatestRiskState = "RISK_OFF" /\ Unwound(tries)
          IN  /\ Commit(IF GetLatestRiskState = "RISK_OFF"
                        THEN HandleRiskOffCoreIn(Store, tries) ELSE Store)
              /\ unwindCycles' = IF unwinds THEN unwindCycles + 1 ELSE unwindCycles
              /\ episode' = IF unwinds THEN episode + 1 ELSE episode
    /\ pcRisk' = "idle"
    /\ UNCHANGED <<acctVars, lastOp, now, riskLog, pcCore, lastPoll,
                   priceMilestones,
                   shutdownEvent, runPc, polls>>

\* TradingSystem.manage_sessions(): one poll that falls into a transition window
ManageSessions ==
    /\ \E outs \in OkOrFail :
          \/ /\ now >= MARKET_OPEN /\ now < MARKET_OPEN + 2 * TransitionWindow
             /\ Commit(HandleSessionTransitionIn(Store, RetryablePlaceOrder(outs)))
             /\ lastPoll' = "RTH"
          \/ /\ ~(now >= MARKET_OPEN /\ now < MARKET_OPEN + 2 * TransitionWindow)
             /\ now >= MARKET_CLOSE /\ now < MARKET_CLOSE + 2 * TransitionWindow
             /\ Commit(HandleSessionTransitionIn(Store, RetryablePlaceOrder(outs)))
             /\ lastPoll' = "AFTERHOURS"
    /\ polls' = IF lastPoll' # lastPoll THEN 1
                ELSE IF polls < MaxPolls THEN polls + 1 ELSE polls
    /\ UNCHANGED <<acctVars, lastOp, now, riskLog, unwindCycles, pcCore, pcRisk,
                   episode, priceMilestones, shutdownEvent, runPc>>

NextLoop ==
    \/ Tick
    \/ RecordRiskState
    \/ CoreGate
    \/ CoreRun
    \/ RiskGate
    \/ RiskRun
    \/ ManageSessions
    \/ BrokerFill
    \/ DeliverStatus

SpecLoop == Init /\ [][NextLoop]_vars

\* C1: in one risk-off episode of the symbol, at most one core unwind SELL is
\* issued by the core-management task and the risk-monitor task together.
C1_OneUnwindPerEpisode == episode <= 1

\* the session that ends at the boundary the session manager last handled
EndedSession ==
    IF lastPoll = "RTH" THEN "PREMARKET" ELSE IF lastPoll = "AFTERHOURS" THEN "RTH"
    ELSE "none"

\* C6: once the session manager has polled in the transition window of a
\* boundary, every order placed in the session that ended there is cancelled:
\* it is terminal, or its cancellation is requested.
C6_SessionEndCancels ==
    \A id \in 1..Len(ibOrders) :
        ibOrders[id].session = EndedSession =>
            ibOrders[id].status # "Submitted" \/ ibOrders[id].cancelReq

\* C7: no order is submitted to the brokerage while no session is active.
C7_NoSubmissionOutsideSessions ==
    \A id \in 1..Len(ibOrders) : ibOrders[id].session # "None"

----------------------------------------------------------------------------
(* SpecRisk: the Risk State Machine *)

\* what can go wrong in one evaluation: the lookup that fails
Failures == {"none", "rsi", "price", "year_high", "all_time_high", "previous"}

\* the readings of one evaluation; a failed lookup hides its reading
Readings ==
    [fail : Failures, weekly_rsi : {70, 71}, daily_rsi : {29, 30},
     current_price : {2}, year_high : {2, 3}, all_time_high : {2, 3}]

WeeklyAtLeast(weekly_rsi) == weekly_rsi >= 70

\* rsi_state['weekly_rsi'] > 70
WeeklyOverbought(weekly_rsi) == weekly_rsi > 70

DailyAtMost(daily_rsi) == daily_rsi <= 30

\* rsi_state['daily_rsi'] < 30
DailyOversold(daily_rsi) == daily_rsi < 30

CarryNeutral(previous_state) == "NEUTRAL"

\* previous_state or 'NEUTRAL'
CarryForward(previous_state) ==
    IF previous_state = "" THEN "NEUTRAL" ELSE previous_state

\* SignalGenerator.get_all_time_high(symbol): 0.0 when the download fails
GetAllTimeHigh(r) == IF r.fail = "all_time_high" THEN 0 ELSE r.all_time_high

\* SignalGenerator.get_last_risk_state(symbol): the latest row, 'NEUTRAL'
\* without rows, 'RISK_OFF' when the query fails
GetLastRiskState(r) ==
    IF r.fail = "previous" THEN "RISK_OFF"
    ELSE IF riskLog = <<>> THEN "NEUTRAL"
    ELSE riskLog[Len(riskLog)]

OutcomeUnlogged(state, logged, milestones) ==
    [state |-> state, logged |-> <<>>, milestones |-> milestones]

\* the outcome of one evaluation: the state returned, the states handed to
\* log_risk_state_change and the milestones handed to log_price_milestone
Outcome(state, logged, milestones) ==
    [state |-> state, logged |-> logged, milestones |-> milestones]

\* SignalGenerator.check_risk_state(symbol)
CheckRiskStateOf(r) ==
    IF r.fail = "rsi" THEN Outcome("RISK_OFF", <<"RISK_OFF">>, <<>>)
    ELSE IF r.fail \in {"price", "year_high"}
    THEN Outcome("RISK_OFF", <<"RISK_OFF">>, <<>>)
    ELSE IF WeeklyOverbought(r.weekly_rsi)
    THEN Outcome("RISK_OFF", <<"RISK_OFF">>, <<>>)
    ELSE IF r.current_price >= r.year_high
    THEN Outcome("RISK_OFF", <<"RISK_OFF">>, <<"52_WEEK_HIGH">>)
    ELSE IF r.current_price >= GetAllTimeHigh(r)
    THEN Outcome("RISK_OFF", <<"RISK_OFF">>, <<"ALL_TIME_HIGH">>)
    ELSE LET previous_state == GetLastRiskState(r)
         IN  IF previous_state = "RISK_OFF"
             THEN IF DailyOversold(r.daily_rsi)
                  THEN Outcome("RISK_ON", <<"RISK_ON">>, <<>>)
                  ELSE Outcome("RISK_OFF", <<>>, <<>>)
             ELSE Outcome(CarryForward(previous_state), <<>>, <<>>)

\* one evaluation of the symbol by the signal generator; lastOp keeps the
\* readings, the latest recorded state before it, what it returned and emitted,
\* and whether the readings are those of the evaluation before it
CheckRiskState ==
    /\ \E r \in Readings :
          LET out == CheckRiskStateOf(r)
              evaluated == lastOp.op = "check_risk_state"
          IN  /\ Len(riskLog \o out.logged) <= MaxRiskRows
              /\ Len(priceMilestones \o out.milestones) <= MaxRiskRows
              /\ riskLog' = riskLog \o out.logged
              /\ priceMilestones' = priceMilestones \o out.milestones
              /\ episode' = IF out.logged = <<>> THEN episode
                            ELSE IF out.logged = <<"RISK_OFF">>
                                    /\ GetLatestRiskState = "RISK_OFF"
                            THEN episode ELSE 0
              /\ lastOp' = [op |-> "check_risk_state", readings |-> r,
                            previous |-> GetLatestRiskState,
                            result |-> out.state, emitted |-> out.milestones,
                            again |-> evaluated /\ lastOp.readings = r,
                            toggle |-> IF evaluated THEN 1 - lastOp.toggle ELSE 0]
    /\ UNCHANGED <<orderVars, acctVars, now, unwindCycles, pcCore, pcRisk, lastPoll,
                   shutdownEvent, runPc, polls>>

NextRisk == CheckRiskState

SpecRisk == Init /\ [][NextRisk]_vars

\* the lookups whose failure leaves the evaluation without a reading
Unavailable(r) == r.fail \in {"rsi", "price", "year_high", "all_time_high"}

\* C11: an evaluation in which some lookup failed (indicators, price, a high,
\* or the previous state) returns RISK_OFF.
C11_FailureGivesRiskOff ==
    (lastOp.op = "check_risk_state" /\ lastOp.readings.fail # "none")
        => lastOp.result = "RISK_OFF"

\* C12: with the previous state known, every evaluation returns the state of
\* the first rule of 1..6 that matches its readings, and emits 52_WEEK_HIGH
\* when that rule is 3 and ALL_TIME_HIGH when it is 4.
C12_FirstMatchWins ==
    lastOp.op = "check_risk_state" /\ lastOp.readings.fail # "previous" =>
        LET r == lastOp.readings
            rule == IF Unavailable(r) THEN 1
                    ELSE IF r.weekly_rsi > 70 THEN 2
                    ELSE IF r.current_price >= r.year_high THEN 3
                    ELSE IF r.current_price >= r.all_time_high THEN 4
                    ELSE IF lastOp.previous = "RISK_OFF" THEN 5
                    ELSE 6
            state == IF rule \in {1, 2, 3, 4} THEN "RISK_OFF"
                     ELSE IF rule = 5
                     THEN (IF r.daily_rsi < 30 THEN "RISK_ON" ELSE "RISK_OFF")
                     ELSE IF lastOp.previous = "NONE" THEN "NEUTRAL"
                     ELSE lastOp.previous
        IN  /\ lastOp.result = state
            /\ rule = 3 => lastOp.emitted = <<"52_WEEK_HIGH">>
            /\ rule = 4 => lastOp.emitted = <<"ALL_TIME_HIGH">>

\* every rule of 2..6 has matched in some evaluation: here rule 4, emitting
\* its milestone while the state was already RISK_OFF
C12_Witness ==
    /\ lastOp.op = "check_risk_state"
    /\ lastOp.readings.fail = "none"
    /\ lastOp.previous = "RISK_OFF"
    /\ lastOp.readings.weekly_rsi = 70
    /\ lastOp.readings.year_high = 3
    /\ lastOp.readings.all_time_high = 2
    /\ lastOp.emitted = <<"ALL_TIME_HIGH">>
    /\ lastOp.result = "RISK_OFF"

\* the readings are all there and let a RISK_OFF symbol recover
Recovers(r) ==
    /\ ~Unavailable(r)
    /\ r.daily_rsi < 30
    /\ r.weekly_rsi <= 70
    /\ r.current_price < r.year_high
    /\ r.current_price < r.all_time_high

\* C13: when the latest recorded state is RISK_OFF, an evaluation leaves it
\* RISK_OFF unless daily_rsi < 30, weekly_rsi <= 70 and the price is below
\* both highs, and an evaluation with such readings makes it RISK_ON.
C13_RiskOffUntilRecovery ==
    [][(/\ riskLog # <<>>
        /\ riskLog[Len(riskLog)] = "RISK_OFF"
        /\ lastOp' # lastOp
        /\ lastOp'.op = "check_risk_state")
       => /\ lastOp'.result = riskLog'[Len(riskLog')]
          /\ (lastOp'.result = "RISK_ON") <=> Recovers(lastOp'.readings)
          /\ (lastOp'.result # "RISK_ON") => lastOp'.result = "RISK_OFF"]_vars

C13_Witness ==
    /\ lastOp.op = "check_risk_state"
    /\ lastOp.previous = "RISK_OFF"
    /\ lastOp.result = "RISK_ON"
    /\ Recovers(lastOp.readings)
    /\ riskLog = <<"RISK_OFF", "RISK_ON">>

\* C14: a risk_states row is appended only when the state differs from the
\* latest recorded one: no row repeats the state of the row before it.
C14_AppendOnlyOnChange ==
    \A i \in 2..Len(riskLog) : riskLog[i] # riskLog[i - 1]

\* C15: an evaluation with the readings of the evaluation before it returns
\* the same state, and every row it appends carries that state.
C15_Idempotent ==
    [][(/\ lastOp.op = "check_risk_state"
        /\ lastOp' # lastOp
        /\ lastOp'.op = "check_risk_state"
        /\ lastOp'.readings = lastOp.readings)
       => /\ lastOp'.result = lastOp.result
          /\ \A i \in (Len(riskLog) + 1)..Len(riskLog') :
                riskLog'[i] = lastOp.result]_vars

\* the second of two evaluations with the same readings, the first of which
\* moved the symbol from RISK_OFF to RISK_ON
C15_Witness ==
    /\ lastOp.op = "check_risk_state"
    /\ lastOp.again
    /\ lastOp.previous = "RISK_ON"
    /\ lastOp.result = "RISK_ON"
    /\ Recovers(lastOp.readings)
    /\ riskLog = <<"RISK_OFF", "RISK_ON">>

----------------------------------------------------------------------------
(* SpecCore: the requirements of the Core Cycle Accountant *)

InitCore == Start({0, 1, 100}, {5, 1000})

\* the account values a caller passes, in cents
AccountValues == {0, 100, 10000, 20000, 100000}

\* calculate_core_building_requirements(symbol, account_value), as
\* track_core_progress and track_core_performance call it; lastOp keeps the
\* input, which lookups answered, and the result
CalculateRequirements ==
    /\ \E account_value \in AccountValues, position_ok \in BOOLEAN,
          price_ok \in BOOLEAN :
          lastOp' = [op |-> "calculate_core_building_requirements",
                     account_value |-> account_value,
                     position_ok |-> position_ok, price_ok |-> price_ok,
                     requirements |-> Requirements(account_value,
                                                   GetPositionSize(position_ok),
                                                   GetCurrentPrice(price_ok)),
                     verdict |-> "none"]
    /\ UNCHANGED <<orderVars, acctVars, loopVars>>

\* OrderManager.place_core_building_orders(symbol, account_value): it returns
\* False with "Core target reached" or goes on to build
PlaceCoreBuildingOrders ==
    /\ \E account_value \in AccountValues, position_ok \in BOOLEAN,
          price_ok \in BOOLEAN :
          LET requirements == Requirements(account_value,
                                           GetPositionSize(position_ok),
                                           GetCurrentPrice(price_ok))
          IN  lastOp' = [op |-> "place_core_building_orders",
                         account_value |-> account_value,
                         position_ok |-> position_ok, price_ok |-> price_ok,
                         requirements |-> requirements,
                         verdict |-> IF requirements.none
                                        \/ requirements.cycles_remaining <= 0
                                     THEN "target_reached" ELSE "build"]
    /\ UNCHANGED <<orderVars, acctVars, loopVars>>

NextCore == CalculateRequirements \/ PlaceCoreBuildingOrders

SpecCore == InitCore /\ [][NextCore]_vars

\* lastOp holds a requirements computation
Computed ==
    lastOp.op \in {"calculate_core_building_requirements",
                   "place_core_building_orders"}

\* C16: the cycles_remaining of every requirements result is >= 0, also when
\* the position is above its target.
C16_CyclesRemainingNotNegative ==
    (Computed /\ ~lastOp.requirements.none)
        => lastOp.requirements.cycles_remaining >= 0

C18_LookupFailureIsUnknown ==
    Computed =>
        /\ (~lastOp.position_ok \/ ~lastOp.price_ok) => lastOp.requirements.none
        /\ (lastOp.op = "place_core_building_orders" /\ lastOp.requirements.none)
              => lastOp.verdict # "target_reached"

----------------------------------------------------------------------------
(* SpecBuild: the build and unwind decisions of the core-management task *)

InitBuild == StartCash({0, 100}, {5}, {100, 10000})

NextBuild ==
    \/ RecordRiskState
    \/ CoreGate
    \/ CoreRun
    \/ BrokerFill
    \/ DeliverStatus

SpecBuild == InitBuild /\ [][NextBuild]_vars

\* the step hands a new order of this entry point to the brokerage
Issues(src) ==
    /\ Len(ibOrders') > Len(ibOrders)
    /\ ibOrders'[Len(ibOrders')].src = src

C20_UnwindSellsConfiguredFraction ==
    [][Issues("handle_risk_off_core") =>
          /\ ibOrders'[Len(ibOrders')].quantity * 100 = position * CoreUnwindPct
          /\ unwindCycles' = unwindCycles + 1]_vars

----------------------------------------------------------------------------
(* Session boundaries polled more than once *)

\* the orders the session manager submitted as replacements and that work
Replacements ==
    {id \in 1..Len(ibOrders) : /\ ibOrders[id].src = "handle_session_transition"
                               /\ ibOrders[id].status = "Submitted"}

\* the orders placed in the session that ended at the boundary last handled
Originals ==
    {id \in 1..Len(ibOrders) : /\ ibOrders[id].session = EndedSession
                               /\ ibOrders[id].src # "handle_session_transition"}

----------------------------------------------------------------------------
(* The state an evaluation returns and the durable record *)

\* C30: when the store answers, the state the latest evaluation returned is
\* the state of the most recent risk_states row, or NEUTRAL when there is no
\* row; no row holds NEUTRAL, and with a row no evaluation returns NEUTRAL.
C30_ReturnedStateIsRecorded ==
    /\ \A i \in 1..Len(riskLog) : riskLog[i] # "NEUTRAL"
    /\ (lastOp.op = "check_risk_state" /\ lastOp.readings.fail # "previous") =>
          /\ riskLog = <<>> => lastOp.result = "NEUTRAL"
          /\ riskLog # <<>> => /\ lastOp.result = riskLog[Len(riskLog)]
                               /\ lastOp.result # "NEUTRAL"

\* an evaluation carried RISK_ON forward from the record
C30_Witness ==
    /\ lastOp.op = "check_risk_state"
    /\ lastOp.readings.fail = "none"
    /\ lastOp.previous = "RISK_ON"
    /\ lastOp.result = "RISK_ON"
    /\ riskLog[Len(riskLog)] = "RISK_ON"

----------------------------------------------------------------------------
(* SpecLimits: the position-limit guardrail as a function *)

InitLimits == StartCash({0, 1}, {92, 1000}, {920, 10000})

\* verify_position_limits(symbol, quantity, action): lastOp keeps the input,
\* the rounding of the quotient, and what the two checks say
VerifyLimits ==
    /\ \E quantity \in {1, 2, 3, 4}, action \in Actions, below \in BOOLEAN :
          lastOp' = [op |-> "verify_position_limits", quantity |-> quantity,
                     action |-> action, below |-> below,
                     buffer |-> PositionBufferAllows(quantity, action, below),
                     allowed |-> VerifyPositionLimitsAt(quantity, action, below)]
    /\ UNCHANGED <<orderVars, acctVars, loopVars>>

NextLimits == VerifyLimits

SpecLimits == InitLimits /\ [][NextLimits]_vars

\* C21: the position-limit check allows a BUY exactly when the position value
\* it results in is at most (target_weight + max_position_buffer) x
\* portfolio_value: allowed at the limit, denied above it.
C21_BufferDecidesAsValue ==
    (lastOp.op = "verify_position_limits" /\ lastOp.action = "BUY") =>
        (lastOp.buffer <=>
            (position + lastOp.quantity) * price * 100
                <= TotalValue * (CoreTargetPct + MaxPositionBufferPct))

----------------------------------------------------------------------------
(* SpecCash: the paths that buy, with little cash next to the holdings *)

InitCash == StartCash({0, 100}, {5}, {20, 100, 10000})

SpecCash == InitCash /\ [][NextGuard]_vars

\* the step hands a new BUY to the brokerage
IssuesBuy ==
    /\ Len(ibOrders') > Len(ibOrders)
    /\ ibOrders'[Len(ibOrders')].action = "BUY"

\* C22: no path places a BUY for which (available_cash - order_value) /
\* portfolio_value is below min_cash_reserve; the core-build path is one of
\* them.
C22_BuyKeepsCashReserve ==
    [][IssuesBuy => CashReserveAllows(ibOrders'[Len(ibOrders')].quantity, "BUY")]_vars

\* C23: a BUY of the buy-signal path is placed only if the position value it
\* results in, current value plus order value, is at most max_exposure_percent
\* of the portfolio value.
C23_BuyStaysUnderExposureCap ==
    [][Issues("handle_buy_signal") =>
          (position + ibOrders'[Len(ibOrders')].quantity) * price * 100
              <= TotalValue * MaxExposurePercent]_vars

----------------------------------------------------------------------------
(* The session classifier and the trading-hours gate, over the day *)

\* the session boundaries and the ends of the day, in half seconds
Boundaries == {At(4, 0, 0), At(9, 30, 0), At(16, 0, 0), At(20, 0, 0)}

\* the times of day datetime.now() is read at: around every boundary to the
\* half second, and the two ends of the day
Times ==
    {b + d : b \in Boundaries, d \in {-2, -1, 0, 1, 2}}
        \cup {At(0, 0, 0), At(12, 0, 0), At(23, 59, 59) + 1}

InitSession == Start({0, 1}, {5, 1000})

\* one call of OrderManager.get_current_session() at time t
ClassifySession ==
    \E t \in Times :
        /\ now' = t
        /\ lastOp' = [op |-> "get_current_session", at |-> t,
                      session |-> GetCurrentSession(t)]
        /\ UNCHANGED <<ibOrders, dbOrder, dbStatusLog, orderLot, position, cash, price,
                       riskLog, priceMilestones, unwindCycles, pcCore, pcRisk, episode,
                       lastPoll, shutdownEvent, runPc, polls>>

\* one call of TradingSystem.check_trading_hours() at time t
CheckGate ==
    \E t \in Times :
        /\ now' = t
        /\ lastOp' = [op |-> "check_trading_hours", at |-> t,
                      open |-> CheckTradingHours(t)]
        /\ UNCHANGED <<ibOrders, dbOrder, dbStatusLog, orderLot, position, cash, price,
                       riskLog, priceMilestones, unwindCycles, pcCore, pcRisk, episode,
                       lastPoll, shutdownEvent, runPc, polls>>

NextSession == ClassifySession \/ CheckGate

SpecSession == InitSession /\ [][NextSession]_vars

\* the sessions of the specification whose half-open window [start, end) holds t
Holding(t) ==
    {w \in { [name |-> "PREMARKET", start |-> At(4, 0, 0), end |-> At(9, 30, 0)],
             [name |-> "RTH", start |-> At(9, 30, 0), end |-> At(16, 0, 0)],
             [name |-> "AFTERHOURS", start |-> At(16, 0, 0), end |-> At(20, 0, 0)] } :
        w.start <= t /\ t < w.end}

\* C24: get_current_session returns the one session whose half-open window
\* [start, end) holds the time and None when no window holds it; no time is in
\* two windows; 09:29:59 is PREMARKET, 09:30:00 RTH, 16:00:00 AFTERHOURS,
\* 20:00:00 and 03:59:59 None.
C24_HalfOpenSessions ==
    lastOp.op = "get_current_session" =>
        /\ Cardinality(Holding(lastOp.at)) <= 1
        /\ Holding(lastOp.at) = {} => lastOp.session = "None"
        /\ \A w \in Holding(lastOp.at) : lastOp.session = w.name
        /\ lastOp.at = At(9, 29, 59) => lastOp.session = "PREMARKET"
        /\ lastOp.at = At(9, 30, 0) => lastOp.session = "RTH"
        /\ lastOp.at = At(16, 0, 0) => lastOp.session = "AFTERHOURS"
        /\ lastOp.at \in {At(20, 0, 0), At(3, 59, 59)} => lastOp.session = "None"

C24_Witness ==
    /\ lastOp.op = "get_current_session"
    /\ lastOp.at = At(9, 30, 0)
    /\ lastOp.session = "RTH"

\* C28: the trading-hours gate is open exactly when a session is active:
\* check_trading_hours(now) is true iff get_current_session(now) is not None,
\* so the gate is closed at 20:00:00.
C28_GateAgreesWithSessions ==
    lastOp.op = "check_trading_hours" =>
        (lastOp.open <=> GetCurrentSession(lastOp.at) # "None")

----------------------------------------------------------------------------
(* The status records of an order *)

\* the orders of one symbol from placement to their end at the brokerage: the
\* calls that reach record_order_status and cancel_order
NextStatus ==
    \/ PlaceLimitOrder
    \/ CancelOrder
    \/ BrokerFill
    \/ BrokerCancel
    \/ BrokerReject
    \/ DeliverStatus

SpecStatus == Init /\ [][NextStatus]_vars

IsPrefix(s, t) == Len(s) <= Len(t) /\ SubSeq(t, 1, Len(s)) = s

----------------------------------------------------------------------------
(* The monitor loops over the core symbols *)

\* cfg.CORE_POSITIONS, in the order of the dict
CORE_POSITIONS == <<"SOXL", "TQQQ", "UPRO", "SPXL">>

\* what processing one symbol does in one iteration: the risk state lookup
\* db.get_latest_risk_state(symbol) raises ("raises"), or it returns and the
\* handler called next fails inside its own try ("caught"), or both return
SymbolOutcomes == {"ok", "caught", "raises"}

\* for symbol in cfg.CORE_POSITIONS, inside one try: the symbols whose body ran
\* to its end, from the i-th on; an exception of the lookup leaves the loop
RECURSIVE ForEachSymbol(_, _)
ForEachSymbol(i, outcome) ==
    IF i > Len(CORE_POSITIONS) THEN {}
    ELSE IF outcome[CORE_POSITIONS[i]] = "raises" THEN {}
         ELSE {CORE_POSITIONS[i]} \cup ForEachSymbol(i + 1, outcome)

InitSymbols == Start({0}, {1000})

\* one iteration of TradingSystem.monitor_risk_state() in trading hours; the
\* except of the loop logs, and the task sleeps and iterates again
MonitorRiskState ==
    \E outcome \in [{CORE_POSITIONS[i] : i \in 1..Len(CORE_POSITIONS)} -> SymbolOutcomes] :
        /\ lastOp' = [op |-> "monitor_risk_state", outcome |-> outcome,
                      processed |-> ForEachSymbol(1, outcome), alive |-> TRUE]
        /\ UNCHANGED <<ibOrders, dbOrder, dbStatusLog, orderLot, acctVars, loopVars>>

\* one call of PortfolioManager.monitor_positions()
MonitorPositions ==
    \E outcome \in [{CORE_POSITIONS[i] : i \in 1..Len(CORE_POSITIONS)} -> SymbolOutcomes] :
        /\ lastOp' = [op |-> "monitor_positions", outcome |-> outcome,
                      processed |-> ForEachSymbol(1, outcome), alive |-> TRUE]
        /\ UNCHANGED <<ibOrders, dbOrder, dbStatusLog, orderLot, acctVars, loopVars>>

NextSymbols == MonitorRiskState \/ MonitorPositions

SpecSymbols == InitSymbols /\ [][NextSymbols]_vars

\* C27: an error raised while a monitor loop processes one symbol leaves the
\* task alive and does not keep the other symbols from being processed in the
\* same iteration: every symbol whose own processing raised nothing is
\* processed.
C27_OtherSymbolsProcessed ==
    lastOp.op \in {"monitor_risk_state", "monitor_positions"} =>
        /\ lastOp.alive
        /\ \A i \in 1..Len(CORE_POSITIONS) :
               lastOp.outcome[CORE_POSITIONS[i]] # "raises" =>
                   CORE_POSITIONS[i] \in lastOp.processed

----------------------------------------------------------------------------
(* Shutdown *)

\* a cancel_all_orders() that requests nothing
CancelNone(st, i) == st

\* OrderManager.cancel_all_orders(): ib.cancelOrder for every order of
\* ib.openOrders(), the orders the client has not seen done, from the i-th on
RECURSIVE CancelAllOrdersIn(_, _)
CancelAllOrdersIn(st, i) ==
    IF i > Len(st.ib) THEN st
    ELSE CancelAllOrdersIn(IF st.ib[i].seen \notin DoneStates
                           THEN IbCancelOrder(st, i) ELSE st, i + 1)

InitShutdown == Init

\* shutdown_handler(sig, frame): SIGINT or SIGTERM sets the event
ShutdownSignal ==
    /\ ~shutdownEvent
    /\ shutdownEvent' = TRUE
    /\ UNCHANGED <<orderVars, acctVars, lastOp, now, riskLog, unwindCycles, pcCore,
                   pcRisk, episode, lastPoll, priceMilestones, runPc, polls>>

\* a periodic task starts an iteration: while not self.shutdown_event.is_set()
ShutdownCoreGate == runPc = "wait" /\ ~shutdownEvent /\ CoreGate
ShutdownRiskGate == runPc = "wait" /\ ~shutdownEvent /\ RiskGate

\* a task that is not cancelled goes on with the iteration it is in
ShutdownCoreRun == runPc = "wait" /\ CoreRun
ShutdownRiskRun == runPc = "wait" /\ RiskRun

\* run(): shutdown_event.wait() returns, every task is cancelled and gathered
CancelTasks ==
    /\ runPc = "wait"
    /\ shutdownEvent
    /\ pcCore' = "cancelled"
    /\ pcRisk' = "cancelled"
    /\ runPc' = "shutdown"
    /\ UNCHANGED <<orderVars, acctVars, lastOp, now, riskLog, unwindCycles, episode,
                   lastPoll, priceMilestones, shutdownEvent, polls>>

\* shutdown(): await self.order_manager.cancel_all_orders()
CancelAllOrders ==
    /\ runPc = "shutdown"
    /\ Commit(CancelAllOrdersIn(Store, 1))
    /\ runPc' = "disconnect"
    /\ UNCHANGED <<acctVars, lastOp, now, riskLog, unwindCycles, pcCore, pcRisk,
                   episode, lastPoll, priceMilestones, shutdownEvent, polls>>

\* shutdown(): await self.connection.disconnect(), then the database is
\* closed and run() returns
Disconnect ==
    /\ runPc = "disconnect"
    /\ runPc' = "closed"
    /\ UNCHANGED <<orderVars, acctVars, lastOp, now, riskLog, unwindCycles, pcCore,
                   pcRisk, episode, lastPoll, priceMilestones, shutdownEvent, polls>>

\* the brokerage delivers nothing over a closed connection
ConnectedDeliverStatus == runPc # "closed" /\ DeliverStatus

NextShutdown ==
    \/ RecordRiskState
    \/ ShutdownCoreGate
    \/ ShutdownCoreRun
    \/ ShutdownRiskGate
    \/ ShutdownRiskRun
    \/ ShutdownSignal
    \/ CancelTasks
    \/ CancelAllOrders
    \/ Disconnect
    \/ BrokerFill
    \/ BrokerCancel
    \/ ConnectedDeliverStatus

\* run() is one coroutine of the event loop: once the event is set the loop
\* resumes it, and each await of its shutdown sequence returns
SpecShutdown ==
    /\ InitShutdown
    /\ [][NextShutdown]_vars
    /\ WF_vars(CancelTasks)
    /\ WF_vars(CancelAllOrders)
    /\ WF_vars(Disconnect)

============================================================================
